---------------------------- MODULE Spec2Model ----------------------------
(***************************************************************************)
(* A model of src/native/native.c, the native half of a Lean 4 socket      *)
(* binding: socket handles and their finalizer, resolved addresses         *)
(* (sockaddr_len blocks), the send/recv family, shutdown, resolve and poll.*)
(*                                                                         *)
(* The operating system is modelled by what its calls do to the            *)
(* descriptor table (fdtab) and by the values they hand back; every        *)
(* lean_* function is one action that performs the whole function body.    *)
(***************************************************************************)
EXTENDS Integers, Sequences, FiniteSets, TLC

VARIABLES
    pc,      \* "run", or why the process runs no further: "crashed", "blocked"
    fdtab,   \* the process's descriptor table: fd -> what the OS holds there
    socks,   \* Socket external objects: handle -> boxed SOCKET* and its history
    addrs,   \* SockAddr external objects: handle -> boxed sockaddr_len*
    leaked,  \* the mallocs whose block no object owns and nobody freed
    last     \* the last operation: its native calls and its result

vars == <<pc, fdtab, socks, addrs, leaked, last>>

---------------------------------------------------------------------------
(* Bounds of the model *)

MaxSocks == 3   \* Socket objects ever allocated
MaxFds   == 3   \* descriptors the process may hold besides 0, 1, 2
MaxAddrs == 2   \* SockAddr objects ever allocated
MaxPoll  == 2   \* entries of a poll batch
MaxCloses == 2  \* explicit closes of one handle

SockIds == 1..MaxSocks
AddrIds == 1..MaxAddrs
Fds     == 3..(2 + MaxFds)

---------------------------------------------------------------------------
(* Native constants (Linux ABI values of the names the source uses) *)

AF_UNSPEC   == 0
AF_INET     == 2
AF_INET6    == 10
SOCK_STREAM == 1
SOCK_DGRAM  == 2

\* sizeof(sockaddr), sizeof(sockaddr_in6), sizeof(sockaddr_storage)
SockaddrSize        == 16
SockaddrIn6Size     == 28
SockaddrStorageSize == 128

\* errno names; EWOULDBLOCK and EAGAIN are kept apart, as the source tests both
ErrnoWouldBlock == {"EAGAIN", "EWOULDBLOCK"}
ErrnoOther      == {"EINTR", "ECONNRESET"}
Errnos          == ErrnoWouldBlock \cup ErrnoOther

---------------------------------------------------------------------------
(* Conversion helpers *)

address_family_unbox(af) ==
    CASE af = 0 -> AF_UNSPEC
      [] af = 1 -> AF_INET
      [] af = 2 -> AF_INET6
      [] OTHER  -> AF_UNSPEC

sock_type_unbox(type) ==
    CASE type = 0 -> 0
      [] type = 1 -> SOCK_STREAM
      [] type = 2 -> SOCK_DGRAM
      [] OTHER    -> -1

ISVALIDSOCKET(s) == s >= 0

\* get_socket_error(): an IO error whose message is strerror(errno)
get_socket_error(errno) == [tag |-> "error", domain |-> "os", msg |-> errno]

io_ok(v) == [tag |-> "ok", val |-> v]

---------------------------------------------------------------------------
(* The operating system's descriptor table *)

FreeFd == [open |-> FALSE, family |-> AF_UNSPEC, type |-> 0,
           listening |-> FALSE, connected |-> FALSE]

IsOpen(fd) == fd \in Fds /\ fdtab[fd].open

FreeFds == {fd \in Fds : ~fdtab[fd].open}

\* POSIX: a new descriptor is the lowest number not open in the process
LowestFree == CHOOSE fd \in FreeFds : \A g \in FreeFds : fd <= g

\* socket(family, type, 0): the new descriptor, or -1
NativeSocket(family, type) ==
    IF /\ family \in {AF_INET, AF_INET6}
       /\ type \in {SOCK_STREAM, SOCK_DGRAM}
       /\ FreeFds # {}
    THEN LowestFree ELSE -1

\* close(fd): 0 and the descriptor is released, or -1 (EBADF)
NativeCloseRet(fd) == IF IsOpen(fd) THEN 0 ELSE -1

NativeCloseTab(fd) ==
    IF IsOpen(fd) THEN [fdtab EXCEPT ![fd] = FreeFd] ELSE fdtab

\* listen(fd, n): 0 and a stream socket listens, or -1
NativeListenRet(fd) ==
    IF IsOpen(fd) /\ fdtab[fd].type = SOCK_STREAM /\ ~fdtab[fd].connected
    THEN 0 ELSE -1

NativeListenTab(fd) ==
    IF NativeListenRet(fd) = 0
    THEN [fdtab EXCEPT ![fd].listening = TRUE] ELSE fdtab

---------------------------------------------------------------------------
(* sockaddr_len blocks                                                     *)
(*                                                                         *)
(* The storage is kept as the fields the two overlays (sockaddr_in,        *)
(* sockaddr_in6) cut it into, each field a sequence of bytes in memory     *)
(* order:                                                                  *)
(*    bytes  0..1   ss_family   (a host-order number)                      *)
(*    bytes  2..3   b2    sin_port / sin6_port, network order              *)
(*    bytes  4..7   b4    sin_addr / sin6_flowinfo                         *)
(*    bytes  8..15  b8    sin_zero / sin6_addr[0..7]                       *)
(*    bytes 16..23  b16   sin6_addr[8..15]                                 *)
(*    bytes 24..27  b24   sin6_scope_id                                    *)
(* Bytes 28..127 are read by no function and are left out.  stored is a    *)
(* history field: how many bytes of the address the filling call wrote.    *)
(* The length a call was given on input is kept with the call, in last.    *)
(* address_len, a 32-bit                                                   *)
(* socklen_t, is kept as the int of the same bit pattern (which is how the *)
(* kernel reads it): a negative value stands for a length of 2^31 or more. *)

Rep(n, b) == [i \in 1..n |-> b]

Blk(len, fam, p, a4, a8, a16, a24) ==
    [address_len |-> len, ss_family |-> fam, b2 |-> p, b4 |-> a4,
     b8 |-> a8, b16 |-> a16, b24 |-> a24, stored |-> 0]

\* What malloc may hand back: zeroed memory, memory full of 0xFF, a block
\* that held an IPv4 sockaddr_len before it was freed, and such a block
\* whose first bytes the allocator has overwritten with its own links.
ZeroBlk  == Blk(0, 0, Rep(2, 0), Rep(4, 0), Rep(8, 0), Rep(8, 0), Rep(4, 0))
JunkBlk  == Blk(-1, 65535, Rep(2, 255), Rep(4, 255), Rep(8, 255),
                Rep(8, 255), Rep(4, 255))
StaleBlk == Blk(SockaddrSize, AF_INET, <<31, 144>>, <<10, 0, 0, 7>>,
                Rep(8, 0), Rep(8, 0), Rep(4, 0))
FreedBlk == Blk(0, 4660, <<86, 120>>, <<10, 0, 0, 7>>,
                Rep(8, 0), Rep(8, 0), Rep(4, 0))
UninitBlks == {ZeroBlk, JunkBlk, StaleBlk, FreedBlk}

\* The addresses the network holds: what the kernel or the resolver would
\* write for them, and their size.
V4Addr(port) == Blk(SockaddrSize, AF_INET, port, <<127, 0, 0, 1>>,
                    Rep(8, 0), Rep(8, 0), Rep(4, 0))
V6Addr(port) == Blk(SockaddrIn6Size, AF_INET6, port, Rep(4, 0), Rep(8, 0),
                    <<0, 0, 0, 0, 0, 0, 0, 1>>, Rep(4, 0))

Port80   == <<0, 80>>
Port8080 == <<31, 144>>

PeerAddr(family) == IF family = AF_INET6 THEN V6Addr(Port80)
                    ELSE V4Addr(Port80)

MinOf(a, b) == IF a <= b THEN a ELSE b

\* The kernel's copy-out of a socket address (accept, getpeername,
\* recvfrom): it writes the first min(len_in, actual) bytes of src into the
\* buffer and sets the length to the actual size.
KernelFill(blk, src, len_in) ==
    LET n == MinOf(len_in, src.address_len)
    IN  [address_len |-> src.address_len,
         ss_family |-> IF n >= 2  THEN src.ss_family ELSE blk.ss_family,
         b2        |-> IF n >= 4  THEN src.b2  ELSE blk.b2,
         b4        |-> IF n >= 8  THEN src.b4  ELSE blk.b4,
         b8        |-> IF n >= 16 THEN src.b8  ELSE blk.b8,
         b16       |-> IF n >= 24 THEN src.b16 ELSE blk.b16,
         b24       |-> IF n >= 28 THEN src.b24 ELSE blk.b24,
         stored    |-> n]

\* recvfrom on a connection-mode socket: no address is written and the
\* length is set to 0.
KernelNoAddr(blk) == [blk EXCEPT !.address_len = 0, !.stored = 0]

NoAddr == [st |-> "none"]

\* sockaddr_len_box: a fresh external object owning the block
\* (from: which operation made it, and from what; a history field)
sockaddr_len_box(sal, from) == [st |-> "live", sal |-> sal, from |-> from]

FreshAddrs == {a \in AddrIds : addrs[a].st = "none"}
NewAddr == CHOOSE a \in FreshAddrs : \A b \in FreshAddrs : a <= b
LiveAddrs == {a \in AddrIds : addrs[a].st = "live"}

\* sockaddr_finalizer: free(sal)
sockaddr_finalizer(a) ==
    /\ pc = "run"
    /\ addrs[a].st = "live"
    /\ addrs' = [addrs EXCEPT ![a] = [st |-> "freed"]]
    /\ last' = [op |-> "sockaddr_finalizer", a |-> a, native |-> <<>>,
                res |-> [tag |-> "ok", val |-> "unit"]]
    /\ UNCHANGED <<pc, fdtab, socks, leaked>>

---------------------------------------------------------------------------
(* Socket objects *)

NoSock == [st |-> "none", fd |-> -1, closes |-> 0, closedOk |-> FALSE,
           freed |-> 0]

\* socket_box: a fresh external object owning the malloc'd SOCKET
socket_box(fd) == [st |-> "live", fd |-> fd, closes |-> 0,
                   closedOk |-> FALSE, freed |-> 0]

FreshSocks == {h \in SockIds : socks[h].st = "none"}
NewSock == CHOOSE h \in FreshSocks : \A g \in FreshSocks : h <= g

LiveSocks == {h \in SockIds : socks[h].st = "live"}

Native(call, fd, ret) == [call |-> call, fd |-> fd, ret |-> ret]

\* socket_finalizer: CLOSESOCKET(*converted); free(converted)
FinalizedSock(s) ==
    [s EXCEPT !.st = "finalized", !.closes = @ + 1, !.freed = @ + 1]

socket_finalizer(h) ==
    /\ pc = "run"
    /\ socks[h].st = "live"
    /\ socks' = [socks EXCEPT ![h] = FinalizedSock(socks[h])]
    /\ fdtab' = NativeCloseTab(socks[h].fd)
    /\ last' = [op |-> "socket_finalizer", h |-> h,
                native |-> <<Native("close", socks[h].fd,
                                    NativeCloseRet(socks[h].fd))>>,
                res |-> io_ok("unit")]
    /\ UNCHANGED <<pc, addrs, leaked>>

\* lean_socket_mk
lean_socket_mk(af_obj, type_obj) ==
    LET family == address_family_unbox(af_obj)
        type   == sock_type_unbox(type_obj)
        fd     == NativeSocket(family, type)
        call   == <<Native("socket", fd, fd)>>
    IN  /\ pc = "run"
        /\ FreshSocks # {}
        /\ IF ISVALIDSOCKET(fd)
           THEN /\ socks' = [socks EXCEPT ![NewSock] = socket_box(fd)]
                /\ fdtab' = [fdtab EXCEPT ![fd] =
                               [open |-> TRUE, family |-> family,
                                type |-> type, listening |-> FALSE,
                                connected |-> FALSE]]
                /\ last' = [op |-> "mk", h |-> NewSock, native |-> call,
                            res |-> io_ok(NewSock)]
                /\ UNCHANGED leaked
           ELSE /\ leaked' = leaked \cup {"mk: socket_fd"}   \* never freed
                /\ last' = [op |-> "mk", h |-> 0, native |-> call,
                            res |-> get_socket_error("EINVAL")]
                /\ UNCHANGED <<socks, fdtab>>
        /\ UNCHANGED <<pc, addrs>>

\* lean_socket_close
ClosedSock(s, ret) ==
    [s EXCEPT !.closes = @ + 1, !.closedOk = @ \/ (ret = 0)]

lean_socket_close(h) ==
    LET fd  == socks[h].fd
        ret == NativeCloseRet(fd)
    IN  /\ pc = "run"
        /\ socks[h].st = "live"
        /\ socks[h].closes < MaxCloses
        /\ socks' = [socks EXCEPT ![h] = ClosedSock(socks[h], ret)]
        /\ fdtab' = NativeCloseTab(fd)
        /\ last' = [op |-> "close", h |-> h,
                    native |-> <<Native("close", fd, ret)>>,
                    res |-> IF ret = 0 THEN io_ok("unit")
                            ELSE get_socket_error("EBADF")]
        /\ UNCHANGED <<pc, addrs, leaked>>

\* lean_socket_listen
lean_socket_listen(h, n) ==
    LET fd  == socks[h].fd
        ret == NativeListenRet(fd)
    IN  /\ pc = "run"
        /\ socks[h].st = "live"
        /\ fdtab' = NativeListenTab(fd)
        /\ last' = [op |-> "listen", h |-> h,
                    native |-> <<Native("listen", fd, ret)>>,
                    res |-> IF ret = 0 THEN io_ok("unit")
                            ELSE get_socket_error("EBADF")]
        /\ UNCHANGED <<pc, socks, addrs, leaked>>

\* accept(fd, addr, &len) succeeds on a listening socket with a connection
\* pending (pending: the network's choice) while a descriptor is free.
NativeAccept(fd, pending) ==
    IF IsOpen(fd) /\ fdtab[fd].listening /\ pending /\ FreeFds # {}
    THEN LowestFree ELSE -1

\* the length lean_socket_accept stores before the call
AcceptLenIn == SockaddrSize

\* lean_socket_accept; u is the content malloc returned for sal
lean_socket_accept(h, pending, u) ==
    LET fd     == socks[h].fd
        new_fd == NativeAccept(fd, pending)
        sal    == KernelFill(u, PeerAddr(fdtab[fd].family), AcceptLenIn)
        call   == <<[call |-> "accept", fd |-> fd, ret |-> new_fd,
                     len_in |-> AcceptLenIn]>>
    IN  /\ pc = "run"
        /\ socks[h].st = "live"
        /\ FreshSocks # {} /\ FreshAddrs # {}
        /\ IF ISVALIDSOCKET(new_fd)
           THEN /\ addrs' = [addrs EXCEPT ![NewAddr] = sockaddr_len_box(sal, <<"accept">>)]
                /\ socks' = [socks EXCEPT ![NewSock] = socket_box(new_fd)]
                /\ fdtab' = [fdtab EXCEPT ![new_fd] =
                               [open |-> TRUE, family |-> fdtab[fd].family,
                                type |-> SOCK_STREAM, listening |-> FALSE,
                                connected |-> TRUE]]
                /\ last' = [op |-> "accept", h |-> h, native |-> call,
                            res |-> io_ok(<<NewAddr, NewSock>>)]
                /\ UNCHANGED leaked
           ELSE /\ leaked' = leaked \cup {"accept: sal", "accept: new_fd"}
                /\ last' = [op |-> "accept", h |-> h, native |-> call,
                            res |-> get_socket_error("EAGAIN")]
                /\ UNCHANGED <<socks, addrs, fdtab>>
        /\ UNCHANGED pc

\* lean_socket_shutdown: the call it makes is listen(fd, h), and a nonzero
\* return takes the ok branch
lean_socket_shutdown(h, how) ==
    LET fd  == socks[h].fd
        ret == NativeListenRet(fd)
    IN  /\ pc = "run"
        /\ socks[h].st = "live"
        /\ fdtab' = NativeListenTab(fd)
        /\ last' = [op |-> "shutdown", h |-> h, how |-> how,
                    native |-> <<Native("listen", fd, ret)>>,
                    wasListening |-> IsOpen(fd) /\ fdtab[fd].listening,
                    res |-> IF ret # 0 THEN io_ok("unit")
                            ELSE get_socket_error("errno as left before")]
        /\ UNCHANGED <<pc, socks, addrs, leaked>>

\* What send, sendto, recv and recvfrom may return for a request of n
\* bytes: a count, or -1 with errno set.
Transfer(ret, errno) == [ret |-> ret, errno |-> errno]

NativeTransfers(fd, n) ==
    IF ~IsOpen(fd) THEN {Transfer(-1, "EBADF")}
    ELSE {Transfer(b, "none") : b \in 0..n}
         \cup {Transfer(-1, e) : e \in Errnos}

\* (mutant) the test without its EWOULDBLOCK half
IsWouldBlock_AgainOnly(errnum) == errnum = "EAGAIN"

IsWouldBlock(errnum) == errnum = "EAGAIN" \/ errnum = "EWOULDBLOCK"

\* the result of lean_socket_send and lean_socket_sendto
SendResult(t) ==
    IF t.ret >= 0 THEN io_ok(t.ret)
    ELSE IF IsWouldBlock(t.errno) THEN io_ok(0)
    ELSE get_socket_error(t.errno)

\* lean_socket_send
lean_socket_send(h, size, t) ==
    LET fd == socks[h].fd
    IN  /\ pc = "run"
        /\ socks[h].st = "live"
        /\ t \in NativeTransfers(fd, size)
        /\ last' = [op |-> "send", h |-> h, size |-> size,
                    native |-> <<[call |-> "send", fd |-> fd, ret |-> t.ret,
                                  errno |-> t.errno]>>,
                    res |-> SendResult(t)]
        /\ UNCHANGED <<pc, fdtab, socks, addrs, leaked>>

\* lean_socket_sendto
lean_socket_sendto(h, size, a, t) ==
    LET fd == socks[h].fd
    IN  /\ pc = "run"
        /\ socks[h].st = "live"
        /\ addrs[a].st = "live"
        /\ t \in NativeTransfers(fd, size)
        /\ last' = [op |-> "sendto", h |-> h, size |-> size, a |-> a,
                    native |-> <<[call |-> "sendto", fd |-> fd,
                                  ret |-> t.ret, errno |-> t.errno,
                                  len_in |-> addrs[a].sal.address_len]>>,
                    res |-> SendResult(t)]
        /\ UNCHANGED <<pc, fdtab, socks, addrs, leaked>>

\* the result of lean_socket_recv; some(v) is <<"some", v>>
RecvResult(t, v) ==
    IF t.ret >= 0 THEN io_ok(<<"some", v>>)
    ELSE IF IsWouldBlock(t.errno) THEN io_ok(<<"none">>)
    ELSE get_socket_error(t.errno)

\* lean_socket_recv; the byte array is kept as its size
lean_socket_recv(h, n, t) ==
    LET fd == socks[h].fd
    IN  /\ pc = "run"
        /\ socks[h].st = "live"
        /\ t \in NativeTransfers(fd, n)
        /\ last' = [op |-> "recv", h |-> h, size |-> n,
                    native |-> <<[call |-> "recv", fd |-> fd, ret |-> t.ret,
                                  errno |-> t.errno]>>,
                    res |-> RecvResult(t, t.ret)]
        /\ UNCHANGED <<pc, fdtab, socks, addrs, leaked>>

\* recvfrom also copies the source address out: a negative length makes the
\* call fail with EINVAL after the data was taken.
NativeRecvfrom(t, len_in) ==
    IF t.ret >= 0 /\ len_in < 0 THEN Transfer(-1, "EINVAL") ELSE t

RecvfromFill(fd, u) ==
    IF fdtab[fd].type = SOCK_DGRAM
    THEN KernelFill(u, PeerAddr(fdtab[fd].family), u.address_len)
    ELSE KernelNoAddr(u)

\* lean_socket_recvfrom; u is the content malloc returned for sal, whose
\* address_len the call reads as it stands
lean_socket_recvfrom(h, n, t0, u) ==
    LET fd == socks[h].fd
        t  == NativeRecvfrom(t0, u.address_len)
        call == <<[call |-> "recvfrom", fd |-> fd, ret |-> t.ret,
                   errno |-> t.errno, len_in |-> u.address_len]>>
    IN  /\ pc = "run"
        /\ socks[h].st = "live"
        /\ FreshAddrs # {}
        /\ t0 \in NativeTransfers(fd, n)
        /\ IF t.ret >= 0
           THEN /\ addrs' = [addrs EXCEPT ![NewAddr] =
                               sockaddr_len_box(RecvfromFill(fd, u), <<"recvfrom">>)]
                /\ last' = [op |-> "recvfrom", h |-> h, size |-> n,
                            native |-> call,
                            res |-> RecvResult(t, <<NewAddr, t.ret>>)]
           ELSE /\ addrs' = addrs            \* free(sal)
                /\ last' = [op |-> "recvfrom", h |-> h, size |-> n,
                            native |-> call, res |-> RecvResult(t, <<>>)]
        /\ UNCHANGED <<pc, fdtab, socks, leaked>>

\* getpeername(fd, addr, &len): 0, or -1 with errno set
NativePeerErrno(fd, len_in) ==
    IF ~IsOpen(fd) THEN "EBADF"
    ELSE IF ~fdtab[fd].connected THEN "ENOTCONN"
    ELSE IF len_in < 0 THEN "EINVAL"
    ELSE "none"

\* lean_socket_peer; u is the content malloc returned for sal
lean_socket_peer(h, u) ==
    LET fd    == socks[h].fd
        errno == NativePeerErrno(fd, u.address_len)
        status == IF errno = "none" THEN 0 ELSE -1
        call  == <<[call |-> "getpeername", fd |-> fd, ret |-> status,
                    len_in |-> u.address_len]>>
    IN  /\ pc = "run"
        /\ socks[h].st = "live"
        /\ FreshAddrs # {}
        /\ IF status = 0
           THEN /\ addrs' = [addrs EXCEPT ![NewAddr] =
                    sockaddr_len_box(KernelFill(u, PeerAddr(fdtab[fd].family),
                                                u.address_len),
                                     <<"peer">>)]
                /\ last' = [op |-> "peer", h |-> h, native |-> call,
                            res |-> io_ok(NewAddr)]
                /\ UNCHANGED leaked
           ELSE /\ leaked' = leaked \cup {"peer: sal"}       \* never freed
                /\ last' = [op |-> "peer", h |-> h, native |-> call,
                            res |-> get_socket_error(errno)]
                /\ UNCHANGED addrs
        /\ UNCHANGED <<pc, fdtab, socks>>

---------------------------------------------------------------------------
(* SockAddr: resolution and the accessors *)

Hosts    == {"127.0.0.1", "::1", "no.such.host"}
Services == {"80", "8080"}

ServicePort(port) == IF port = "80" THEN Port80 ELSE Port8080

\* The statuses by which getaddrinfo reports a failure are nonzero: the
\* EAI_* codes are negative in glibc and musl (EAI_NONAME is -2,
\* EAI_SERVICE -8) and positive in the BSD and macOS libc (EAI_NONAME is 8).
EaiGlibc == {-2, -8}
EaiBsd   == {8}

\* getaddrinfo(host, port, hints): whether the pair resolves under the
\* family hint, and the first candidate's address when it does
Resolves(host, family) ==
    \/ host = "127.0.0.1" /\ family \in {AF_UNSPEC, AF_INET}
    \/ host = "::1" /\ family \in {AF_UNSPEC, AF_INET6}

FirstCandidate(host, port) ==
    IF host = "::1" THEN V6Addr(ServicePort(port))
    ELSE V4Addr(ServicePort(port))

\* sal->address_len = ai_res->ai_addrlen;
\* sal->address = *(sockaddr_storage *)(ai_res->ai_addr);
\* the structure copy takes sizeof(sockaddr_storage) bytes: the candidate's
\* ai_addrlen bytes, then whatever lies behind them (over)
CopyCandidate(ai, over) == KernelFill(over, ai, ai.address_len)

\* lean_mk_io_user_error(lean_mk_string(gai_strerror(status)))
gai_error(status) == [tag |-> "error", domain |-> "resolver", msg |-> status]

\* the test that decides whether getaddrinfo failed
GaiFailed(status) == status < 0

\* lean_sockaddr_mk.  status: what getaddrinfo returns (0 exactly when the
\* pair resolves); over: the memory behind the candidate; ub: what
\* dereferencing ai_res does when getaddrinfo failed and left it unset.
lean_sockaddr_mk(host, port, f, t, status, over, ub) ==
    LET family == address_family_unbox(f)
        type   == sock_type_unbox(t)
        call   == <<[call |-> "getaddrinfo", ret |-> status]>>
        rec(read, res) ==
            [op |-> "resolve", host |-> host, port |-> port, f |-> f,
             native |-> call, readResult |-> read, res |-> res]
    IN  /\ pc = "run"
        /\ FreshAddrs # {}
        /\ status = 0 <=> Resolves(host, family)
        /\ IF GaiFailed(status)
           THEN /\ leaked' = leaked \cup {"resolve: sal"}    \* never freed
                /\ last' = rec(FALSE, gai_error(status))
                /\ UNCHANGED <<pc, addrs>>
           ELSE IF status = 0
           THEN /\ addrs' = [addrs EXCEPT ![NewAddr] =
                    sockaddr_len_box(
                        CopyCandidate(FirstCandidate(host, port), over),
                        <<"resolve", host, port>>)]
                /\ last' = rec(TRUE, io_ok(NewAddr))
                /\ UNCHANGED <<pc, leaked>>
           ELSE \* ai_res was never set: reading through it is undefined
                \/ /\ ub = "crash"
                   /\ pc' = "crashed"
                   /\ last' = rec(TRUE, [tag |-> "crash"])
                   /\ UNCHANGED <<addrs, leaked>>
                \/ /\ ub = "garbage"
                   /\ addrs' = [addrs EXCEPT ![NewAddr] =
                        sockaddr_len_box(over, <<"unset ai_res">>)]
                   /\ last' = rec(TRUE, io_ok(NewAddr))
                   /\ UNCHANGED <<pc, leaked>>
        /\ UNCHANGED <<fdtab, socks>>

\* Option values: some(v) is <<"some", v>>, none is <<"none">>
lean_option_mk_some(v) == <<"some", v>>
lean_option_mk_none == <<"none">>

\* (mutant) the switch with a default that answers unspecified
sockaddr_family_Total(sal) ==
    CASE sal.ss_family = AF_INET   -> lean_option_mk_some(1)
      [] sal.ss_family = AF_INET6  -> lean_option_mk_some(2)
      [] OTHER                     -> lean_option_mk_some(0)

\* the switch of lean_sockaddr_family
sockaddr_family(sal) ==
    CASE sal.ss_family = AF_UNSPEC -> lean_option_mk_some(0)
      [] sal.ss_family = AF_INET   -> lean_option_mk_some(1)
      [] sal.ss_family = AF_INET6  -> lean_option_mk_some(2)
      [] OTHER                     -> lean_option_mk_none

\* ntohs of two bytes in network order
ntohs(b) == b[1] * 256 + b[2]

\* lean_sockaddr_port
sockaddr_port(sal) ==
    IF sal.ss_family = AF_INET THEN lean_option_mk_some(ntohs(sal.b2))
    ELSE IF sal.ss_family = AF_INET6 THEN lean_option_mk_some(ntohs(sal.b2))
    ELSE lean_option_mk_none

\* the 16 bytes of sin6_addr
Sin6Addr(sal) == sal.b8 \o sal.b16

\* inet_ntop: the groups of the text form (four decimal bytes; eight
\* 16-bit groups, written without zero compression)
inet_ntop4(b) == <<"ip4", b>>
inet_ntop6(b) == <<"ip6", [i \in 1..8 |-> b[2 * i - 1] * 256 + b[2 * i]]>>

\* lean_sockaddr_host
sockaddr_host(sal) ==
    IF sal.ss_family = AF_INET THEN lean_option_mk_some(inet_ntop4(sal.b4))
    ELSE IF sal.ss_family = AF_INET6
    THEN lean_option_mk_some(inet_ntop6(Sin6Addr(sal)))
    ELSE lean_option_mk_none

\* memcmp(x, y, n): 0, or the difference of the first bytes that differ
memcmp(x, y, n) ==
    LET d == {i \in 1..n : x[i] # y[i]}
    IN  IF d = {} THEN 0
        ELSE LET i == CHOOSE j \in d : \A k \in d : j <= k IN x[i] - y[i]

\* sizeof(a1i->sin6_addr)
Sin6AddrSize == 16

\* (mutant) memcmp over the first half of sin6_addr only
sockaddr_beq_HalfAddr(a1s, a2s) ==
    IF a1s.ss_family # a2s.ss_family THEN FALSE
    ELSE CASE a1s.ss_family = AF_INET ->
                a1s.b4 = a2s.b4 /\ a1s.b2 = a2s.b2
           [] a1s.ss_family = AF_INET6 ->
                /\ a1s.b2 = a2s.b2
                /\ memcmp(Sin6Addr(a1s), Sin6Addr(a2s), 8) = 0
           [] OTHER -> FALSE

\* (mutant) the IPv4 case without the port comparison
sockaddr_beq_NoPort(a1s, a2s) ==
    IF a1s.ss_family # a2s.ss_family THEN FALSE
    ELSE CASE a1s.ss_family = AF_INET -> a1s.b4 = a2s.b4
           [] a1s.ss_family = AF_INET6 ->
                /\ a1s.b2 = a2s.b2
                /\ memcmp(Sin6Addr(a1s), Sin6Addr(a2s), Sin6AddrSize) = 0
           [] OTHER -> FALSE

\* lean_sockaddr_beq
sockaddr_beq(a1s, a2s) ==
    IF a1s.ss_family # a2s.ss_family THEN FALSE
    ELSE CASE a1s.ss_family = AF_INET ->
                a1s.b4 = a2s.b4 /\ a1s.b2 = a2s.b2
           [] a1s.ss_family = AF_INET6 ->
                /\ a1s.b2 = a2s.b2
                /\ memcmp(Sin6Addr(a1s), Sin6Addr(a2s), Sin6AddrSize) = 0
           [] OTHER -> FALSE

Accessor(op, a, ret) ==
    /\ pc = "run"
    /\ addrs[a].st = "live"
    /\ last' = [op |-> op, a |-> a, native |-> <<>>, res |-> ret]
    /\ UNCHANGED <<pc, fdtab, socks, addrs, leaked>>

lean_sockaddr_family(a) == Accessor("family", a, sockaddr_family(addrs[a].sal))
lean_sockaddr_port(a) == Accessor("port", a, sockaddr_port(addrs[a].sal))
lean_sockaddr_host(a) == Accessor("host", a, sockaddr_host(addrs[a].sal))

lean_sockaddr_beq(a1, a2) ==
    /\ pc = "run"
    /\ addrs[a1].st = "live" /\ addrs[a2].st = "live"
    /\ last' = [op |-> "beq", a |-> a1, b |-> a2, native |-> <<>>,
                res |-> sockaddr_beq(addrs[a1].sal, addrs[a2].sal)]
    /\ UNCHANGED <<pc, fdtab, socks, addrs, leaked>>

---------------------------------------------------------------------------
(* Readiness polling *)

POLLIN   == 1
POLLOUT  == 4
POLLHUP  == 16
POLLNVAL == 32

\* A Poll entry: (socket, events, revents, ignore)
PollEntry(h, ev, rev, ign) ==
    [socket |-> h, events |-> ev, revents |-> rev, ignore |-> ign]

\* A UInt32 timeout is kept as its top bit and its low 31 bits
Timeout(hi, lo) == [hi |-> hi, lo |-> lo]

\* (int32_t)timeout
ToInt32(t) == IF t.hi = 1 THEN (t.lo - 2147483647) - 1 ELSE t.lo

\* ~fd
BitNot(x) == -x - 1

\* the first loop of lean_socket_poll: the pollfd array built from s
PollFds(s) ==
    [i \in 1..Len(s) |->
        [fd |-> IF s[i].ignore = 1 THEN BitNot(socks[s[i].socket].fd)
                ELSE socks[s[i].socket].fd,
         events |-> s[i].events,
         revents |-> 0]]

\* poll(2) on one pollfd: a negative fd is skipped (revents 0), a closed one
\* reports POLLNVAL, an open one what is ready of the events asked for, or
\* POLLHUP
NativeRevents(pfd) ==
    IF pfd.fd < 0 THEN {0}
    ELSE IF ~IsOpen(pfd.fd) THEN {POLLNVAL}
    ELSE {0, pfd.events, POLLHUP}

\* (mutant) the in-place path writing revents whatever the ignore flag
PollInPlace_AllEntries(s, pollfds) ==
    [i \in 1..Len(s) |-> [s[i] EXCEPT !.revents = pollfds[i].revents]]

\* the in-place path: revents is set in the entries whose ignore is 0
PollInPlace(s, pollfds) ==
    [i \in 1..Len(s) |->
        IF s[i].ignore = 0
        THEN [s[i] EXCEPT !.revents = pollfds[i].revents]
        ELSE s[i]]

\* the copying path: a new array of new entries
PollCopy(s, pollfds) ==
    [i \in 1..Len(s) |->
        LET ignore  == s[i].ignore
            revents == IF ignore = 1 THEN s[i].revents
                       ELSE pollfds[i].revents
        IN  PollEntry(s[i].socket, s[i].events, revents, ignore)]

\* lean_socket_poll.  exclusive: lean_is_exclusive(s); fail: a signal
\* interrupts the wait and poll returns -1; rv: the revents poll writes.
\* With a negative timeout and nothing ready the native call does not
\* return: the caller stays blocked.
lean_socket_poll(s, timeout, exclusive, fail, rv) ==
    LET n       == Len(s)
        pollfds == PollFds(s)
        to      == ToInt32(timeout)
        out     == [i \in 1..n |-> [pollfds[i] EXCEPT !.revents = rv[i]]]
                   \* (on failure poll writes nothing: rv is all 0)
        ready   == \E i \in 1..n : rv[i] # 0
        rec(waited, res) ==
            [op |-> "poll", s |-> s, timeout |-> timeout,
             exclusive |-> exclusive,
             native |-> <<[call |-> "poll", fds |-> pollfds,
                           timeout |-> to, out |-> out,
                           interrupted |-> fail]>>,
             waited |-> waited, res |-> res]
    IN  /\ pc = "run"
        /\ \A i \in 1..n : socks[s[i].socket].st = "live"
        /\ \A i \in 1..n : rv[i] \in (IF fail THEN {0}
                                        ELSE NativeRevents(pollfds[i]))
        /\ IF fail
           THEN /\ last' = rec("no", get_socket_error("EINTR"))
                /\ pc' = pc
           ELSE IF ~ready /\ to < 0
           THEN /\ last' = rec("forever", [tag |-> "blocked"])
                /\ pc' = "blocked"
           ELSE /\ last' = rec(IF ready THEN "no" ELSE "timeout",
                               io_ok(IF exclusive THEN PollInPlace(s, out)
                                     ELSE PollCopy(s, out)))
                /\ pc' = pc
        /\ UNCHANGED <<fdtab, socks, addrs, leaked>>

\* The batches and answers the model draws from
PollEntries ==
    {PollEntry(h, ev, rev, ign) :
        h \in 1..2, ev \in {POLLIN, POLLOUT}, rev \in {0, POLLIN},
        ign \in {0, 1}}

PollBatches == UNION {[1..n -> PollEntries] : n \in 0..MaxPoll}

\* 0, 50, 2^31 - 1, 2^31 and 2^32 - 1 milliseconds
PollTimeouts == {Timeout(0, 0), Timeout(0, 50), Timeout(0, 2147483647),
                 Timeout(1, 0), Timeout(1, 2147483647)}

PollAnswers(n) == [1..n -> {0, POLLIN, POLLOUT, POLLHUP, POLLNVAL}]

---------------------------------------------------------------------------
(* Specifications *)

NoOp == [op |-> "none", native |-> <<>>, res |-> io_ok("unit")]

OpenSock(family, type, listening) ==
    [open |-> TRUE, family |-> family, type |-> type,
     listening |-> listening, connected |-> FALSE]

\* Spec: the life of handles, from the start of the process
Init ==
    /\ pc = "run"
    /\ fdtab = [fd \in Fds |-> FreeFd]
    /\ socks = [h \in SockIds |-> NoSock]
    /\ addrs = [a \in AddrIds |-> NoAddr]
    /\ leaked = {}
    /\ last = NoOp

Next ==
    \/ \E af \in 0..2, ty \in 0..2 : lean_socket_mk(af, ty)
    \/ \E h \in SockIds : lean_socket_close(h)
    \/ \E h \in SockIds : socket_finalizer(h)
    \/ \E h \in SockIds : lean_socket_listen(h, 5)
    \/ \E h \in SockIds, pending \in BOOLEAN, u \in UninitBlks :
          lean_socket_accept(h, pending, u)
    \/ \E a \in AddrIds : sockaddr_finalizer(a)

Spec == Init /\ [][Next]_vars

\* The state after Socket.mk family stream; Socket.mk family datagram:
\* handle 1 owns descriptor 3, handle 2 owns descriptor 4.  listening: after
\* Socket.listen on the first; closed: after Socket.close on the second.
TwoSockets(family, listening, closed) ==
    /\ pc = "run"
    /\ fdtab = [fd \in Fds |->
                  IF fd = 3 THEN OpenSock(family, SOCK_STREAM, listening)
                  ELSE IF fd = 4 /\ ~closed
                  THEN OpenSock(family, SOCK_DGRAM, FALSE)
                  ELSE FreeFd]
    /\ socks = [h \in SockIds |->
                  IF h = 1 THEN socket_box(3)
                  ELSE IF h = 2
                  THEN IF closed THEN ClosedSock(socket_box(4), 0)
                       ELSE socket_box(4)
                  ELSE NoSock]
    /\ addrs = [a \in AddrIds |-> NoAddr]
    /\ leaked = {}
    /\ last = NoOp

\* The operations that change nothing but last.  Taking one right after
\* another reaches no state that taking it first would not, so the
\* specifications below take them from the states other steps lead to.
ReadOnlyOps == {"send", "sendto", "recv", "family", "port", "host", "beq",
                "poll"}

Settled == last.op \notin ReadOnlyOps

Transfers == {Transfer(r, e) : r \in -1..1, e \in Errnos \cup {"none", "EBADF"}}

\* SpecIO: transfers and shutdown on two sockets
InitIO == \E family \in {AF_INET, AF_INET6} : TwoSockets(family, FALSE, FALSE)

NextIO ==
    \/ Settled /\ \E h \in SockIds, size \in 0..1, t \in Transfers :
          lean_socket_send(h, size, t)
    \/ Settled /\ \E h \in SockIds, size \in 0..1, a \in AddrIds,
                     t \in Transfers :
          lean_socket_sendto(h, size, a, t)
    \/ Settled /\ \E h \in SockIds, n \in 0..1, t \in Transfers :
          lean_socket_recv(h, n, t)
    \/ \E h \in SockIds, n \in 0..1, u \in {StaleBlk, JunkBlk},
          t \in Transfers :
          lean_socket_recvfrom(h, n, t, u)
    \/ \E h \in SockIds, how \in 0..2 : lean_socket_shutdown(h, how)

SpecIO == InitIO /\ [][NextIO]_vars

\* the resolutions a build against glibc can see
ResolveGlibc ==
    \E host \in Hosts, port \in Services, f \in 0..2, t \in 0..1,
       status \in EaiGlibc \cup {0}, over \in {ZeroBlk, JunkBlk} :
       lean_sockaddr_mk(host, port, f, t, status, over, "crash")

\* SpecAddr: addresses from resolve and recvfrom, and the accessors applied
\* to them, in a build against glibc
InitAddr ==
    \E family \in {AF_INET, AF_INET6} : TwoSockets(family, TRUE, FALSE)

NextAddr ==
    \/ ResolveGlibc
    \/ \E h \in SockIds, u \in UninitBlks :
          lean_socket_recvfrom(h, 1, Transfer(1, "none"), u)
    \/ Settled /\ \E a \in AddrIds : lean_sockaddr_family(a)
    \/ Settled /\ \E a \in AddrIds : lean_sockaddr_port(a)
    \/ Settled /\ \E a \in AddrIds : lean_sockaddr_host(a)
    \/ Settled /\ \E a1, a2 \in AddrIds : lean_sockaddr_beq(a1, a2)

SpecAddr == InitAddr /\ [][NextAddr]_vars

\* SpecPeer: every operation that makes an address
NextPeer ==
    \/ ResolveGlibc
    \/ \E h \in SockIds, pending \in BOOLEAN, u \in UninitBlks :
          lean_socket_accept(h, pending, u)
    \/ \E h \in SockIds, u \in UninitBlks : lean_socket_peer(h, u)
    \/ \E h \in SockIds, u \in UninitBlks :
          lean_socket_recvfrom(h, 1, Transfer(1, "none"), u)
    \/ \E a \in AddrIds : sockaddr_finalizer(a)

SpecPeer == InitAddr /\ [][NextPeer]_vars

\* SpecResolve: resolution in a build against either kind of libc
NextResolve ==
    \/ \E host \in Hosts, port \in Services, f \in 0..2, t \in 0..1,
          status \in EaiGlibc \cup EaiBsd \cup {0}, over \in UninitBlks,
          ub \in {"crash", "garbage"} :
          lean_sockaddr_mk(host, port, f, t, status, over, ub)
    \/ \E a \in AddrIds : sockaddr_finalizer(a)

SpecResolve == InitAddr /\ [][NextResolve]_vars

\* SpecPoll: poll over batches of the two sockets, the second of which may
\* have been closed
InitPoll == \E closed \in BOOLEAN : TwoSockets(AF_INET, TRUE, closed)

NextPoll ==
    Settled /\ \E s \in PollBatches, timeout \in PollTimeouts,
                  exclusive \in BOOLEAN, fail \in BOOLEAN :
       \E rv \in PollAnswers(Len(s)) :
          lean_socket_poll(s, timeout, exclusive, fail, rv)

SpecPoll == InitPoll /\ [][NextPoll]_vars

\* SpecHeap: the operations that allocate native blocks, and the two
\* finalizers, in a build against glibc
NextHeap ==
    \/ \E af \in 1..2, ty \in {0, 2} : lean_socket_mk(af, ty)
    \/ \E h \in SockIds, pending \in BOOLEAN, u \in {StaleBlk, JunkBlk} :
          lean_socket_accept(h, pending, u)
    \/ \E h \in SockIds, u \in {StaleBlk, JunkBlk} : lean_socket_peer(h, u)
    \/ \E h \in SockIds, u \in {StaleBlk, JunkBlk},
          t \in {Transfer(1, "none"), Transfer(-1, "EAGAIN")} :
          lean_socket_recvfrom(h, 1, t, u)
    \/ \E host \in Hosts, status \in EaiGlibc \cup {0} :
          lean_sockaddr_mk(host, "80", 0, 0, status, ZeroBlk, "crash")
    \/ Settled /\ \E exclusive \in BOOLEAN, fail \in BOOLEAN,
                     rv \in PollAnswers(1) :
          lean_socket_poll(<<PollEntry(1, POLLIN, 0, 0)>>, Timeout(0, 50),
                           exclusive, fail, rv)
    \/ \E h \in SockIds : socket_finalizer(h)
    \/ \E a \in AddrIds : sockaddr_finalizer(a)

SpecHeap == InitAddr /\ [][NextHeap]_vars

---------------------------------------------------------------------------
(* Claims *)

LastCall == last.native[1]

\* C1: once an explicit close of a handle has succeeded, the finalizer of
\* that handle makes no native close of its descriptor, and it frees the
\* handle's memory exactly once.
C1_NoDoubleClose ==
    (last.op = "socket_finalizer" /\ socks[last.h].closedOk) =>
        /\ \A i \in 1..Len(last.native) : last.native[i].call # "close"
        /\ socks[last.h].freed = 1

\* C2: no two Socket objects that are not yet finalized hold the same
\* descriptor number.
C2_NoAliasing ==
    \A h1, h2 \in LiveSocks : h1 # h2 => socks[h1].fd # socks[h2].fd

\* C3: a successful poll returns as many entries as it was given, in order,
\* each with its socket, events and ignore flag; the revents of an entry is
\* what the native poll wrote for that socket's descriptor when ignore is
\* false, and the entry's previous revents when ignore is true -- whether
\* the array was exclusive or shared.
C3_PollResult ==
    (last.op = "poll" /\ last.res.tag = "ok") =>
        LET s == last.s
            r == last.res.val
        IN  /\ Len(r) = Len(s)
            /\ \A i \in 1..Len(s) :
                 /\ r[i].socket = s[i].socket
                 /\ r[i].events = s[i].events
                 /\ r[i].ignore = s[i].ignore
                 /\ s[i].ignore = 0 =>
                      /\ LastCall.fds[i].fd = socks[s[i].socket].fd
                      /\ LastCall.fds[i].events = s[i].events
                      /\ r[i].revents = LastCall.out[i].revents
                 /\ s[i].ignore = 1 => r[i].revents = s[i].revents

\* a poll of two entries on the in-place path: the first ignored, with a
\* previous mask, the second watched and found ready
C3_Witness ==
    /\ last.op = "poll" /\ last.res.tag = "ok" /\ last.exclusive
    /\ Len(last.s) = 2
    /\ last.s[1].ignore = 1 /\ last.s[1].revents = POLLIN
    /\ last.s[2].ignore = 0 /\ last.s[2].revents = 0
    /\ last.res.val[2].revents = POLLOUT

TransferOps == {"send", "sendto", "recv", "recvfrom"}

\* C4: send, sendto, recv and recvfrom make one native call; when it fails
\* with EAGAIN or EWOULDBLOCK the result is a success (0 bytes for the
\* sends, none for the receives), and any other failure is an OS error
\* carrying that errno.
C4_WouldBlockIsSuccess ==
    last.op \in TransferOps =>
        /\ Len(last.native) = 1
        /\ LastCall.call = last.op
        /\ (LastCall.ret < 0 /\ LastCall.errno \in ErrnoWouldBlock) =>
              last.res = IF last.op \in {"send", "sendto"} THEN io_ok(0)
                         ELSE io_ok(<<"none">>)
        /\ (LastCall.ret < 0 /\ LastCall.errno \notin ErrnoWouldBlock) =>
              last.res = [tag |-> "error", domain |-> "os",
                          msg |-> LastCall.errno]

C4_Witness ==
    /\ last.op = "recvfrom"
    /\ LastCall.ret < 0 /\ LastCall.errno = "EWOULDBLOCK"
    /\ last.res = io_ok(<<"none">>)

\* C5: shutdown makes the native shutdown call, returns unit exactly when
\* that call succeeds, and leaves the socket's listening state as it was.
C5_ShutdownContract ==
    last.op = "shutdown" =>
        /\ Len(last.native) = 1
        /\ LastCall.call = "shutdown"
        /\ last.res.tag = "ok" <=> LastCall.ret = 0
        /\ IsOpen(socks[last.h].fd) =>
              fdtab[socks[last.h].fd].listening = last.wasListening

Sal(a) == addrs[a].sal

\* C6: whenever getaddrinfo reports a failure (any nonzero status), resolve
\* returns the resolver's error for that status, without reading the
\* result and without producing an address; it produces an address only
\* when the status is 0, and then the first candidate's bytes and length.
C6_ResolveFailure ==
    last.op = "resolve" =>
        /\ LastCall.ret # 0 =>
              last.res = gai_error(LastCall.ret) /\ ~last.readResult
        /\ last.res.tag = "ok" =>
              /\ LastCall.ret = 0
              /\ LET c == FirstCandidate(last.host, last.port)
                     r == Sal(last.res.val)
                 IN  /\ r.address_len = c.address_len
                     /\ r.ss_family = c.ss_family
                     /\ r.b2 = c.b2 /\ r.b4 = c.b4 /\ r.b8 = c.b8
                     /\ c.ss_family = AF_INET6 =>
                           r.b16 = c.b16 /\ r.b24 = c.b24

IPFamilies == {AF_INET, AF_INET6}

\* the raw address field of the family: sin_addr, or all of sin6_addr
RawAddr(x) == IF x.ss_family = AF_INET THEN x.b4 ELSE x.b8 \o x.b16

\* C7: equals(a, b) is true exactly when a and b have the same family, the
\* family is IPv4 or IPv6, and the raw address field and the port field
\* are identical; nothing else of the two blocks matters.
C7_EqualsIff ==
    last.op = "beq" =>
        (last.res <=>
            /\ Sal(last.a).ss_family = Sal(last.b).ss_family
            /\ Sal(last.a).ss_family \in IPFamilies
            /\ RawAddr(Sal(last.a)) = RawAddr(Sal(last.b))
            /\ Sal(last.a).b2 = Sal(last.b).b2)

\* two IPv4 blocks that differ (in length or in bytes behind the address)
\* compare equal
C7_Witness ==
    /\ last.op = "beq" /\ last.res
    /\ Sal(last.a).ss_family = AF_INET
    /\ Sal(last.a).b16 # Sal(last.b).b16

\* two IPv6 blocks that differ only in the second half of sin6_addr
\* compare unequal
C7_WitnessV6 ==
    /\ last.op = "beq" /\ ~last.res
    /\ Sal(last.a).ss_family = AF_INET6 /\ Sal(last.b).ss_family = AF_INET6
    /\ Sal(last.a).b2 = Sal(last.b).b2 /\ Sal(last.a).b8 = Sal(last.b).b8
    /\ Sal(last.a).b16 # Sal(last.b).b16

Resolved(a) == addrs[a].from[1] = "resolve"

\* the parts of C8 that do not concern equals(a, a)
C8_Rest ==
    /\ last.res = sockaddr_beq(Sal(last.b), Sal(last.a))
    /\ (Resolved(last.a) /\ Resolved(last.b)) =>
          /\ addrs[last.a].from = addrs[last.b].from => last.res
          /\ (/\ addrs[last.a].from[2] = addrs[last.b].from[2]
              /\ addrs[last.a].from[3] # addrs[last.b].from[3]) => ~last.res

\* C8 as stated: equals(a, a) is true for every address, equals is
\* symmetric, two addresses resolved from the same (host, port) are equal
\* and two resolved from one host with different ports are unequal.
C8_ReflexiveSymmetric ==
    last.op = "beq" =>
        /\ Sal(last.a) = Sal(last.b) => last.res
        /\ C8_Rest

\* C8 amended: equals(a, a) is true exactly for the addresses whose family
\* is IPv4 or IPv6; the rest as stated.
C8_ReflexiveOnIP ==
    last.op = "beq" =>
        /\ Sal(last.a) = Sal(last.b) =>
              (last.res <=> Sal(last.a).ss_family \in IPFamilies)
        /\ C8_Rest

\* two different objects resolved from the same host and service compare
\* equal
C8_Witness ==
    /\ last.op = "beq" /\ last.res /\ last.a # last.b
    /\ Resolved(last.a) /\ addrs[last.a].from = addrs[last.b].from

\* C9: the declared length of an address is within the storage and within
\* the bytes the filling call stored, and accept, recvfrom and getpeername
\* are given the storage size as the input length.
C9_LengthWithinStored ==
    /\ \A a \in LiveAddrs :
          /\ Sal(a).address_len >= 0
          /\ Sal(a).address_len <= SockaddrStorageSize
          /\ Sal(a).address_len <= Sal(a).stored
    /\ last.op \in {"accept", "recvfrom", "peer"} =>
          LastCall.len_in = SockaddrStorageSize

\* C10 as stated: family() is IPv4 for the AF_INET tag, IPv6 for the
\* AF_INET6 tag and unspecified for every other tag, never none; port()
\* and host() are present exactly for IPv4 and IPv6.
C10_FamilyTotal ==
    /\ last.op = "family" =>
          last.res = CASE Sal(last.a).ss_family = AF_INET  -> <<"some", 1>>
                       [] Sal(last.a).ss_family = AF_INET6 -> <<"some", 2>>
                       [] OTHER -> <<"some", 0>>
    /\ last.op \in {"port", "host"} =>
          (last.res[1] = "some" <=>
              sockaddr_family(Sal(last.a)) \in {<<"some", 1>>, <<"some", 2>>})

\* C10 amended: family() is some IPv4 for AF_INET, some IPv6 for AF_INET6,
\* some unspecified for AF_UNSPEC and none for every other tag; port() and
\* host() are present exactly when family() is some IPv4 or some IPv6.
C10_FamilyOption ==
    /\ last.op = "family" =>
          last.res = CASE Sal(last.a).ss_family = AF_INET   -> <<"some", 1>>
                       [] Sal(last.a).ss_family = AF_INET6  -> <<"some", 2>>
                       [] Sal(last.a).ss_family = AF_UNSPEC -> <<"some", 0>>
                       [] OTHER -> <<"none">>
    /\ last.op \in {"port", "host"} =>
          (last.res[1] = "some" <=>
              sockaddr_family(Sal(last.a)) \in {<<"some", 1>>, <<"some", 2>>})

\* family() of a block whose tag is none of the three constants
C10_Witness ==
    /\ last.op = "family"
    /\ Sal(last.a).ss_family \notin {AF_UNSPEC, AF_INET, AF_INET6}
    /\ last.res = <<"none">>

\* C11: whatever the UInt32 timeout, a poll that no signal interrupts and
\* in which nothing becomes ready gives the native call a wait of at least
\* 0 and at most timeout milliseconds, does not stay blocked, and returns
\* ok with revents 0 in the entries not ignored and the previous revents in
\* the ignored ones.
C11_TimeoutBounded ==
    (/\ last.op = "poll"
     /\ ~LastCall.interrupted
     /\ \A i \in 1..Len(last.s) : LastCall.out[i].revents = 0) =>
        /\ LastCall.timeout >= 0
        /\ last.timeout.hi = 0 => LastCall.timeout <= last.timeout.lo
        /\ last.waited # "forever"
        /\ last.res.tag = "ok"
        /\ \A i \in 1..Len(last.s) :
              last.res.val[i].revents =
                  IF last.s[i].ignore = 1 THEN last.s[i].revents ELSE 0

\* C12: no native block is left that no handle owns -- the failure paths
\* of create, accept, peer and resolve leave none allocated, as that of
\* recvfrom does -- and the block of a Socket handle is freed once by its
\* finalizer and not before.
C12_HeapOwned ==
    /\ leaked = {}
    /\ \A h \in SockIds :
          socks[h].freed = IF socks[h].st = "finalized" THEN 1 ELSE 0

=============================================================================
